---------------------------- MODULE Spec2Model ----------------------------
(***************************************************************************)
(* A model of the Twitter integration of meme-ai-agent:                    *)
(*   - TwitterService (src/unnamed/part_000): postTweet,                    *)
(*     postTweetWithRetry, initialize / initializeWithRetry, tweet, the     *)
(*     content validation, and the push stream with its restart timer;      *)
(*   - AgentTwitterClientService                                            *)
(*     (src/src/services/social/agentTwitterClient.ts): initialize, the     *)
(*     facade operations and the polling monitor started by startStream.    *)
(* JavaScript runs each callback to its next await without interleaving,    *)
(* so an action is the code between two awaits.  Time is the variable now   *)
(* (milliseconds, what Date.now() returns).                                 *)
(***************************************************************************)
EXTENDS Integers, Sequences, FiniteSets, TLC

(***************************************************************************)
(* Bounds of the model.                                                     *)
(***************************************************************************)
\* largest config.maxRetries drawn
MaxRetriesCfg == 3
\* smallest config.retryDelay drawn (ms); the other one drawn is twice it
BaseDelay == 250
\* the clock advances in steps of TickMs, up to MaxTime
TickMs == 500
MaxTime == 3000
\* largest x-rate-limit-reset header drawn (seconds since the epoch)
MaxResetSec == 3
\* largest contentRules.maxEmojis / maxHashtags drawn
MaxRule == 1
\* most emojis / hashtags in a drawn content
MaxMarks == 1
\* how far past the 280 limit a drawn content goes
MaxOver == 1
\* the poll clock advances in steps of PollStepMs, up to MaxPollTime
PollStepMs == 15000
MaxPollTime == 90000
\* tweet ids searchTweets draws from: 1 .. MaxTweets
MaxTweets == 2
\* most poll ticks in flight at once
MaxInFlight == 2
\* the per-tweet dispatch count saturates here
DispatchCap == 2
\* the stream clock advances in steps of StreamStepMs, up to MaxStreamTime
StreamStepMs == 2500
MaxStreamTime == 10000
\* most startStream calls in flight, restart timers pending, subscriptions open
MaxStarts == 2
MaxTimers == 2
MaxStreams == 2
\* most 'error' events the subscriptions emit
MaxErrors == 3
\* most handleStreamData calls in flight
MaxHandlers == 2
\* most market-update timers setInterval makes, most startMarketUpdates calls in flight
MaxMarketTimers == 3
MaxMarketStarts == 2

(***************************************************************************)
(* Program constants.                                                       *)
(***************************************************************************)
\* postTweet: content.length > 280
MaxTweetLen == 280
\* getRateLimitReset: resetHeader * 1000
MsPerSec == 1000
\* initializeWithRetry(maxRetries = 3)
InitMaxRetries == 3
\* AgentTwitterClientService.startStream: setInterval(..., 30000)
PollIntervalMs == 30000
\* the constructor's defaults of maxRetries and retryDelay
DefaultMaxRetries == 3
DefaultRetryDelay == 5000

VARIABLES
    config,      \* TwitterService.config (the fields the retry code reads)
    now,         \* Date.now()
    op,          \* the TwitterService operation in flight, "none" when idle
    pc,          \* where that operation is
    content,     \* its content argument
    attempt,     \* its local attempt counter
    lastError,   \* postTweetWithRetry's lastError
    wakeAt,      \* when the pending delay() resolves
    error,       \* the exception the catch block is handling
    outcome,     \* what the operation returned or threw to its caller
    hist,        \* what happened during the call (observations, not program state)
    \* AgentTwitterClientService
    scraper,             \* "null" or "Scraper"
    isInitialized,
    streamHandler,       \* "null" or "TwitterStreamHandler"
    monitoringInterval,  \* "null" or "armed"
    isMonitoring,        \* the field this.isMonitoring
    monitorOn,           \* startStream's local isMonitoring, read by the poll callback
    lastChecked,         \* startStream's local lastChecked
    nextFire,            \* when the interval timer is due next
    agentPc,             \* "idle", or "login" while initialize awaits scraper.login
    ticks,               \* the poll callbacks in flight
    dispatched,          \* per tweet id, the handleTweetEvent calls begun (observation)
    initResult,          \* how the latest initialize() ended (observation)
    facade,              \* the latest facade call and how it ended (observation)
    monitor,             \* what the poll callbacks did so far (observation)
    \* TwitterService's push stream
    isStreaming,
    userId,              \* "null" or the bot's id "bot"
    starts,              \* the startStream calls in flight
    openStreams,         \* subscriptions searchStream opened that the platform keeps open
    restartTimers,       \* due times of the pending setTimeout callbacks of handleStreamError
    stopped,             \* stop() has been called (observation)
    lastStart,           \* how the latest startStream call ended (observation)
    lastData,            \* what the latest handleStreamData call did (observation)
    handlers,            \* the handleStreamData calls in flight
    recovery,            \* what handleStreamError and its timers did so far (observation)
    \* TwitterService's market updates
    marketUpdateInterval, \* 0 for null, else the id of the timer setInterval returned
    market               \* the timers that are armed and the calls in flight

retryVars == <<config, now, op, pc, content, attempt, lastError, wakeAt, error, outcome, hist>>

agentVars ==
    <<scraper, isInitialized, streamHandler, monitoringInterval, isMonitoring, monitorOn,
      lastChecked, nextFire, agentPc, ticks, dispatched, initResult, facade, monitor>>

streamVars ==
    <<isStreaming, userId, starts, openStreams, restartTimers, stopped, lastStart, lastData,
      handlers, recovery>>

\* the variables of a service other than TwitterService's retrying operations
marketVars == <<marketUpdateInterval, market>>

nonRetryVars == <<agentVars, streamVars, marketVars>>

\* the variables of TwitterService's retrying operations, but the clock
callVars == <<config, op, pc, content, attempt, lastError, wakeAt, error, outcome, hist>>

vars == <<retryVars, agentVars, streamVars, marketVars>>

(***************************************************************************)
(* Contents.  A content is abstracted to what the code reads of it: how    *)
(* many emojis of U+1F600..U+1F64F, how many '#', how many other           *)
(* characters.  content.length counts UTF-16 code units, and each of these *)
(* emojis is a surrogate pair.                                              *)
(***************************************************************************)
PlainCounts == {0, 1} \cup ((MaxTweetLen - 2) .. (MaxTweetLen + MaxOver))

Contents == [plain : PlainCounts, emojis : 0 .. MaxMarks, hashtags : 0 .. MaxMarks]

Length(c) == c.plain + c.hashtags + 2 * c.emojis

(***************************************************************************)
(* Errors.  reset is error.rateLimit?.reset, 0 when the header is absent   *)
(* (absent and 0 are both falsy in getRateLimitReset).                      *)
(***************************************************************************)
NoError == [cls |-> "none", code |-> 0, reset |-> 0, rateLimitError |-> FALSE, msg |-> "none"]

ValidationError(m) ==
    [cls |-> "Error", code |-> 0, reset |-> 0, rateLimitError |-> FALSE, msg |-> m]

ValidationMsgs == {"empty", "too long", "too many emojis", "too many hashtags"}

RateLimitErrors ==
    {[cls |-> "ApiResponseError", code |-> 429, reset |-> r, rateLimitError |-> TRUE,
      msg |-> "rate limit"] : r \in 0 .. MaxResetSec}

TransientErrors ==
    {[cls |-> "ApiResponseError", code |-> 500, reset |-> 0, rateLimitError |-> FALSE,
      msg |-> "server error"],
     [cls |-> "ApiRequestError", code |-> 0, reset |-> 0, rateLimitError |-> FALSE,
      msg |-> "network"]}

\* what a call into the platform (userClient.v2.tweet, userClient.v2.me) can throw
PlatformErrors == RateLimitErrors \cup TransientErrors

TerminalError(n, last) ==
    [cls |-> "Error", code |-> 0, reset |-> 0, rateLimitError |-> FALSE,
     msg |-> "failed after attempts", attempts |-> n, cause |-> last.msg]

Success == [cls |-> "none", code |-> 0, reset |-> 0, rateLimitError |-> FALSE, msg |-> "ok"]

MockResult ==
    [cls |-> "none", code |-> 0, reset |-> 0, rateLimitError |-> FALSE, msg |-> "mock_tweet_id"]

(***************************************************************************)
(* Pure helpers of TwitterService.                                          *)
(***************************************************************************)
\* postTweet's own checks; NoError when the content passes
postTweetCheck(c) ==
    IF Length(c) = 0 THEN ValidationError("empty")
    ELSE IF Length(c) > MaxTweetLen THEN ValidationError("too long")
    ELSE NoError

\* validateTweetContent; NoError when the content passes
validateTweetContent(c) ==
    IF c.emojis > config.maxEmojis THEN ValidationError("too many emojis")
    ELSE IF c.hashtags > config.maxHashtags THEN ValidationError("too many hashtags")
    ELSE NoError

getRateLimitResetNoScale(e) == e.reset

\* 0 stands for null
getRateLimitReset(e) == IF e.reset # 0 THEN e.reset * MsPerSec ELSE 0

shouldRetry(e, att) ==
    /\ att < config.maxRetries
    /\ e.cls = "ApiResponseError"
    /\ (e.rateLimitError \/ e.code = 429)

BackoffFromZero(att) == config.retryDelay * (2 ^ (att - 1))

\* postTweetWithRetry's backoff
Backoff(att) == config.retryDelay * (2 ^ att)

isRateLimit(e) == e.cls = "ApiResponseError" /\ e.code = 429

\* the claims' T: the instant (ms) the platform says the limit is lifted
ResetInstant(e) == e.reset * 1000


(***************************************************************************)
(* Observations of one call.                                                *)
(*   calls      tries made (postTweet / verifyUserAuth invocations, or      *)
(*              tweet's loop iterations)                                    *)
(*   platform   requests sent to the platform                               *)
(*   payloadLen length of the longest text handed to userClient.v2.tweet    *)
(*   sleeps     delay() calls awaited; resetWaits: those of the rate-limit  *)
(*              branch; lastSleep: the duration of the latest one           *)
(*              lastKind: "reset" or "backoff", which branch took it;       *)
(*              prevBackoff: the duration of the sleep before it when that  *)
(*              was a backoff too, else 0                                   *)
(*   notBefore  T when the latest failure was a 429 with T > now, else 0    *)
(*   startedAt  when the latest try started                                 *)
(*   lastFail   the message of the latest failed try                        *)
(*   succeeded  a try succeeded                                             *)
(***************************************************************************)
FreshHist ==
    [calls |-> 0, platform |-> 0, payloadLen |-> 0, sleeps |-> 0, resetWaits |-> 0,
     lastSleep |-> 0, lastKind |-> "none", prevBackoff |-> 0, notBefore |-> 0,
     startedAt |-> 0, lastFail |-> "none", succeeded |-> FALSE]

NoContent == [plain |-> 0, emojis |-> 0, hashtags |-> 0]

Configs ==
    [mockMode : BOOLEAN, maxRetries : 1 .. MaxRetriesCfg,
     retryDelay : {BaseDelay, 2 * BaseDelay},
     maxEmojis : 0 .. MaxRule, maxHashtags : 0 .. MaxRule]

\* postTweet reads only the length of its content
PostContents == {c \in Contents : c.hashtags = 0}

\* postTweetWithRetry and initialize read no content rule: the constructor's defaults
PostConfigs == {c \in Configs : c.maxEmojis = 0 /\ c.maxHashtags = 0}

\* the constructor's defaults
DefaultConfig ==
    [mockMode |-> FALSE, maxRetries |-> DefaultMaxRetries, retryDelay |-> DefaultRetryDelay,
     maxEmojis |-> 0, maxHashtags |-> 0]

\* no operation of TwitterService in flight
CallIdle ==
    /\ op = "none"
    /\ pc = "idle"
    /\ content = NoContent
    /\ attempt = 0
    /\ lastError = NoError
    /\ wakeAt = 0
    /\ error = NoError
    /\ outcome = NoError
    /\ hist = FreshHist

\* delay(ms): the promise resolves no sooner than ms from now
Sleep(ms, isReset) ==
    /\ pc' = "sleeping"
    /\ wakeAt' = now + ms
    /\ hist' = [hist EXCEPT !.sleeps = @ + 1, !.lastSleep = ms,
                            !.resetWaits = IF isReset THEN @ + 1 ELSE @,
                            !.lastKind = IF isReset THEN "reset" ELSE "backoff",
                            !.prevBackoff = IF ~isReset /\ hist.lastKind = "backoff"
                                            THEN hist.lastSleep ELSE 0]

\* the request userClient.v2.tweet(tweetPayload) leaves
SubmitTweet(c) ==
    /\ pc' = "awaiting"
    /\ hist' = [hist EXCEPT !.calls = @ + 1, !.platform = @ + 1, !.startedAt = now,
                            !.payloadLen = IF Length(c) > @ THEN Length(c) ELSE @]

(***************************************************************************)
(* postTweetWithRetry(content), with postTweet(content) inlined.            *)
(***************************************************************************)
CallPostTweetWithRetry(c) ==
    /\ pc = "idle"
    /\ UNCHANGED nonRetryVars
    /\ op' = "postTweetWithRetry"
    /\ content' = c
    /\ attempt' = 0
    /\ lastError' = NoError
    /\ pc' = "loop"
    /\ hist' = FreshHist
    /\ outcome' = NoError
    /\ error' = NoError
    /\ UNCHANGED <<config, now, wakeAt>>

PTOneMoreAttempt == attempt <= config.maxRetries

PTStopsOneShort == attempt + 1 < config.maxRetries

\* while (attempt < this.config.maxRetries)
PTHasAttemptsLeft == attempt < config.maxRetries

\* the while test, then postTweet up to its await of userClient.v2.tweet
PTLoop ==
    /\ op = "postTweetWithRetry" /\ pc = "loop"
    /\ UNCHANGED nonRetryVars
    /\ IF PTHasAttemptsLeft
       THEN IF postTweetCheck(content) # NoError
            THEN /\ pc' = "caught"
                 /\ error' = postTweetCheck(content)
                 /\ hist' = [hist EXCEPT !.calls = @ + 1, !.startedAt = now,
                                         !.notBefore = 0,
                                         !.lastFail = postTweetCheck(content).msg]
                 /\ UNCHANGED outcome
            ELSE /\ SubmitTweet(content)
                 /\ UNCHANGED <<error, outcome>>
       ELSE /\ pc' = "thrown"
            /\ outcome' = TerminalError(config.maxRetries, lastError)
            /\ UNCHANGED <<error, hist>>
    /\ UNCHANGED <<config, now, op, content, attempt, lastError, wakeAt>>

PTCountsAlwaysButResetWait(e) ==
    IF isRateLimit(e) /\ getRateLimitReset(e) # 0 /\ getRateLimitReset(e) - now > 0
    THEN attempt
    ELSE attempt + 1

\* attempt++ at the head of the catch block
PTNextAttempt(e) == attempt + 1

\* the catch block of postTweetWithRetry
PTCatch ==
    /\ op = "postTweetWithRetry" /\ pc = "caught"
    /\ UNCHANGED nonRetryVars
    /\ lastError' = error
    /\ attempt' = PTNextAttempt(error)
    /\ LET resetTime == getRateLimitReset(error)
           waitTime == resetTime - now
       IN IF error.cls = "ApiResponseError" /\ error.code = 429
             /\ resetTime # 0 /\ waitTime > 0
          THEN Sleep(waitTime, TRUE)
          ELSE IF attempt' < config.maxRetries
               THEN Sleep(Backoff(attempt'), FALSE)
               ELSE /\ pc' = "loop"
                    /\ UNCHANGED <<wakeAt, hist>>
    /\ UNCHANGED <<config, now, op, content, error, outcome>>

(***************************************************************************)
(* initialize(), with initializeWithRetry() and verifyUserAuth() inlined.   *)
(***************************************************************************)
CallInitialize ==
    /\ pc = "idle"
    /\ UNCHANGED nonRetryVars
    /\ op' = "initialize"
    /\ content' = NoContent
    /\ attempt' = 0
    /\ lastError' = NoError
    /\ hist' = FreshHist
    /\ error' = NoError
    /\ IF config.mockMode
       THEN pc' = "returned" /\ outcome' = Success
       ELSE pc' = "loop" /\ outcome' = NoError
    /\ UNCHANGED <<config, now, wakeAt>>

\* the while test, then verifyUserAuth up to its await of userClient.v2.me
IWLoop ==
    /\ op = "initialize" /\ pc = "loop"
    /\ UNCHANGED nonRetryVars
    /\ IF attempt < InitMaxRetries
       THEN /\ pc' = "awaiting"
            /\ hist' = [hist EXCEPT !.calls = @ + 1, !.platform = @ + 1,
                                    !.startedAt = now]
            /\ UNCHANGED outcome
       ELSE /\ pc' = "thrown"
            /\ outcome' = TerminalError(InitMaxRetries, NoError)
            /\ UNCHANGED hist
    /\ UNCHANGED <<config, now, op, content, attempt, lastError, wakeAt, error>>

\* the catch block of initializeWithRetry; initialize rethrows what it throws
IWCatch ==
    /\ op = "initialize" /\ pc = "caught"
    /\ UNCHANGED nonRetryVars
    /\ attempt' = attempt + 1
    /\ LET resetTime == getRateLimitReset(error)
           waitTime == resetTime - now
       IN IF error.cls = "ApiResponseError" /\ error.code = 429
             /\ resetTime # 0 /\ waitTime > 0
          THEN Sleep(waitTime, TRUE) /\ UNCHANGED outcome
          ELSE /\ pc' = "thrown"
               /\ outcome' = error
               /\ UNCHANGED <<wakeAt, hist>>
    /\ UNCHANGED <<config, now, op, content, lastError, error>>

(***************************************************************************)
(* tweet(content), called without options.                                  *)
(***************************************************************************)
CallTweetValidatesFirst(c) ==
    /\ pc = "idle"
    /\ UNCHANGED nonRetryVars
    /\ op' = "tweet"
    /\ content' = c
    /\ attempt' = 0
    /\ lastError' = NoError
    /\ hist' = FreshHist
    /\ error' = NoError
    /\ IF validateTweetContent(c) # NoError
       THEN pc' = "thrown" /\ outcome' = validateTweetContent(c)
       ELSE IF config.mockMode
            THEN pc' = "returned" /\ outcome' = MockResult
            ELSE pc' = "loop" /\ outcome' = NoError
    /\ UNCHANGED <<config, now, wakeAt>>

CallTweet(c) ==
    /\ pc = "idle"
    /\ UNCHANGED nonRetryVars
    /\ op' = "tweet"
    /\ content' = c
    /\ attempt' = 0
    /\ lastError' = NoError
    /\ hist' = FreshHist
    /\ error' = NoError
    /\ IF config.mockMode
       THEN pc' = "returned" /\ outcome' = MockResult
       ELSE IF validateTweetContent(c) # NoError
            THEN pc' = "thrown" /\ outcome' = validateTweetContent(c)
            ELSE pc' = "loop" /\ outcome' = NoError
    /\ UNCHANGED <<config, now, wakeAt>>

\* the while test, then the try block up to its await of userClient.v2.tweet
TWLoop ==
    /\ op = "tweet" /\ pc = "loop"
    /\ UNCHANGED nonRetryVars
    /\ IF attempt < config.maxRetries
       THEN SubmitTweet(content) /\ UNCHANGED outcome
       ELSE /\ pc' = "thrown"
            /\ outcome' = TerminalError(config.maxRetries, NoError)
            /\ UNCHANGED hist
    /\ UNCHANGED <<config, now, op, content, attempt, lastError, wakeAt, error>>

\* the catch block of tweet
TWCatch ==
    /\ op = "tweet" /\ pc = "caught"
    /\ UNCHANGED nonRetryVars
    /\ attempt' = attempt + 1
    /\ IF shouldRetry(error, attempt')
       THEN Sleep(config.retryDelay * attempt', FALSE) /\ UNCHANGED outcome
       ELSE /\ pc' = "thrown"
            /\ outcome' = error
            /\ UNCHANGED <<wakeAt, hist>>
    /\ UNCHANGED <<config, now, op, content, lastError, error>>

(***************************************************************************)
(* validateTweetContent(content) called on its own.  Its contents also say *)
(* how many emojis outside U+1F600..U+1F64F they hold (otherEmojis), which *)
(* the regular expression of validateTweetContent does not match.          *)
(***************************************************************************)
ValidatorContents ==
    [plain : {0, 1}, emojis : 0 .. (MaxRule + 1), otherEmojis : 0 .. MaxMarks,
     hashtags : 0 .. (MaxRule + 1)]

ValidateTweetContent(c) ==
    /\ pc = "idle"
    /\ UNCHANGED nonRetryVars
    /\ op' = "validateTweetContent"
    /\ content' = c
    /\ IF validateTweetContent(c) # NoError
       THEN pc' = "thrown" /\ outcome' = validateTweetContent(c)
       ELSE pc' = "returned" /\ outcome' = Success
    /\ UNCHANGED <<config, now, attempt, lastError, wakeAt, error, hist>>

(***************************************************************************)
(* The platform answers the request in flight; a timer fires; time passes.  *)
(***************************************************************************)
\* verifyUserAuth also keeps the id userClient.v2.me returned
RespondOk ==
    /\ pc = "awaiting"
    /\ userId' = IF op = "initialize" THEN "bot" ELSE userId
    /\ UNCHANGED <<isStreaming, starts, openStreams, restartTimers, stopped, lastStart,
                   lastData, handlers, recovery>>
    /\ UNCHANGED agentVars
    /\ UNCHANGED marketVars
    /\ pc' = "returned"
    /\ outcome' = Success
    /\ hist' = [hist EXCEPT !.succeeded = TRUE]
    /\ UNCHANGED <<config, now, op, content, attempt, lastError, wakeAt, error>>

RespondErr(e) ==
    /\ pc = "awaiting"
    /\ UNCHANGED nonRetryVars
    /\ pc' = "caught"
    /\ error' = e
    /\ hist' = [hist EXCEPT !.lastFail = e.msg, !.notBefore =
                   IF isRateLimit(e) /\ ResetInstant(e) > now THEN ResetInstant(e) ELSE 0]
    /\ UNCHANGED <<config, now, op, content, attempt, lastError, wakeAt, outcome>>

\* the timer of delay() fires and the loop goes on
Wake ==
    /\ pc = "sleeping"
    /\ UNCHANGED nonRetryVars
    /\ now >= wakeAt
    /\ pc' = "loop"
    /\ UNCHANGED <<config, now, op, content, attempt, lastError, wakeAt, error, outcome, hist>>

\* the caller has its answer; the service is free for the next call
Finish ==
    /\ pc \in {"returned", "thrown"}
    /\ UNCHANGED nonRetryVars
    /\ pc' = "idle"
    /\ op' = "none"
    /\ content' = NoContent
    /\ attempt' = 0
    /\ lastError' = NoError
    /\ wakeAt' = 0
    /\ error' = NoError
    /\ outcome' = NoError
    /\ hist' = FreshHist
    /\ UNCHANGED <<config, now>>

\* time passes while the program waits; the code between two awaits takes none
Tick ==
    /\ pc \notin {"loop", "caught"}
    /\ UNCHANGED nonRetryVars
    /\ now + TickMs <= MaxTime
    /\ now' = now + TickMs
    /\ UNCHANGED <<config, op, pc, content, attempt, lastError, wakeAt, error, outcome, hist>>

(***************************************************************************)
(* AgentTwitterClientService.                                               *)
(***************************************************************************)
Tweets == 1 .. MaxTweets

\* how a call into the scraper ends: it resolves, rejects with an Error, or
\* rejects with a value that is no Error
ScraperOutcomes == {"ok", "Error", "nonError"}

NoFacade ==
    [op |-> "none", ready |-> FALSE, so |-> "ok", threw |-> FALSE, success |-> FALSE,
     error |-> "none"]

\* what the poll callbacks did so far:
\*   fetchFailed    a tick ended because the generator threw
\*   handlerFailed  a tick ended because handleTweetEvent threw
\*   returnedEarly  a callback returned at once (if (!isMonitoring) return)
\*   refetched      a callback called searchTweets after a tick had failed
NoMonitor ==
    [fetchFailed |-> FALSE, handlerFailed |-> FALSE, returnedEarly |-> FALSE,
     refetched |-> FALSE]

AgentInit ==
    /\ scraper = "null"
    /\ isInitialized = FALSE
    /\ streamHandler = "null"
    /\ monitoringInterval = "null"
    /\ isMonitoring = FALSE
    /\ monitorOn = FALSE
    /\ lastChecked = 0
    /\ nextFire = 0
    /\ agentPc = "idle"
    /\ ticks = <<>>
    /\ dispatched = [t \in Tweets |-> 0]
    /\ initResult = "none"
    /\ facade = NoFacade
    /\ monitor = NoMonitor

\* initialize() up to its await of scraper.login
AgentInitialize ==
    /\ agentPc = "idle"
    /\ monitoringInterval = "null"
    /\ scraper' = "Scraper"
    /\ agentPc' = "login"
    /\ UNCHANGED <<isInitialized, streamHandler, monitoringInterval, isMonitoring, monitorOn,
                   lastChecked, nextFire, ticks, dispatched, initResult, facade, monitor>>
    /\ UNCHANGED retryVars
    /\ UNCHANGED marketVars
    /\ UNCHANGED streamVars

\* login resolved: the handler is made, startStream arms the interval (it
\* awaits nothing), isInitialized is set
LoginOk ==
    /\ agentPc = "login"
    /\ streamHandler' = "TwitterStreamHandler"
    /\ lastChecked' = now
    /\ monitorOn' = TRUE
    /\ monitoringInterval' = "armed"
    /\ nextFire' = now + PollIntervalMs
    /\ isMonitoring' = TRUE
    /\ isInitialized' = TRUE
    /\ agentPc' = "idle"
    /\ initResult' = "returned"
    /\ UNCHANGED <<scraper, ticks, dispatched, facade, monitor>>
    /\ UNCHANGED retryVars
    /\ UNCHANGED marketVars
    /\ UNCHANGED streamVars

LoginFailSwallowed ==
    /\ agentPc = "login"
    /\ agentPc' = "idle"
    /\ initResult' = "returned"
    /\ isInitialized' = TRUE
    /\ UNCHANGED <<scraper, streamHandler, monitoringInterval, isMonitoring,
                   monitorOn, lastChecked, nextFire, ticks, dispatched, facade, monitor>>
    /\ UNCHANGED retryVars
    /\ UNCHANGED marketVars
    /\ UNCHANGED streamVars

\* login rejected: initialize logs and throws
LoginFail ==
    /\ agentPc = "login"
    /\ agentPc' = "idle"
    /\ initResult' = "threw"
    /\ UNCHANGED <<scraper, isInitialized, streamHandler, monitoringInterval, isMonitoring,
                   monitorOn, lastChecked, nextFire, ticks, dispatched, facade, monitor>>
    /\ UNCHANGED retryVars
    /\ UNCHANGED marketVars
    /\ UNCHANGED streamVars

\* ensureInitialized does not throw
ensureInitialized == isInitialized /\ scraper # "null"

Failure(cause) == [threw |-> FALSE, success |-> FALSE, error |-> cause]

Thrown(cause) == [threw |-> TRUE, success |-> FALSE, error |-> cause]

\* error instanceof Error ? error : new Error('Unknown error')
Cause(so) == IF so = "Error" THEN "scraper error" ELSE "Unknown error"

TweetOpUnguarded(ready, so) ==
    IF ~ready THEN Thrown("not initialized")
    ELSE IF so = "ok" THEN [threw |-> FALSE, success |-> TRUE, error |-> "none"]
    ELSE Failure(Cause(so))

\* the body shared by sendTweet, replyToTweet, likeTweet and retweet: the
\* whole of it is inside try
TweetOp(ready, so) ==
    IF ~ready THEN Failure("not initialized")
    ELSE IF scraper # "null"
         THEN IF so = "ok" THEN [threw |-> FALSE, success |-> TRUE, error |-> "none"]
              ELSE Failure(Cause(so))
         ELSE Failure("Scraper not initialized")

\* getProfile: ensureInitialized is called before try, and catch rethrows
getProfileOp(ready, so) ==
    IF ~ready THEN Thrown("not initialized")
    ELSE IF scraper # "null"
         THEN IF so = "ok" THEN [threw |-> FALSE, success |-> TRUE, error |-> "none"]
              ELSE Thrown(Cause(so))
         ELSE Thrown("Scraper not initialized")

\* what the caller of a facade operation sees
Seen(name, so, r) ==
    [op |-> name, ready |-> ensureInitialized, so |-> so, threw |-> r.threw,
     success |-> r.success, error |-> r.error]

\* a facade operation changes nothing of the service
facadeFrame ==
    <<scraper, isInitialized, streamHandler, monitoringInterval, isMonitoring, monitorOn,
      lastChecked, nextFire, agentPc, ticks, dispatched, initResult, monitor>>

SendTweet(so) ==
    /\ facade' = Seen("sendTweet", so, TweetOp(ensureInitialized, so))
    /\ UNCHANGED facadeFrame
    /\ UNCHANGED retryVars
    /\ UNCHANGED marketVars
    /\ UNCHANGED streamVars

\* postTweet returns this.sendTweet(content)
PostTweet(so) ==
    /\ facade' = Seen("postTweet", so, TweetOp(ensureInitialized, so))
    /\ UNCHANGED facadeFrame
    /\ UNCHANGED retryVars
    /\ UNCHANGED marketVars
    /\ UNCHANGED streamVars

ReplyToTweet(so) ==
    /\ facade' = Seen("replyToTweet", so, TweetOp(ensureInitialized, so))
    /\ UNCHANGED facadeFrame
    /\ UNCHANGED retryVars
    /\ UNCHANGED marketVars
    /\ UNCHANGED streamVars

LikeTweet(so) ==
    /\ facade' = Seen("likeTweet", so, TweetOp(ensureInitialized, so))
    /\ UNCHANGED facadeFrame
    /\ UNCHANGED retryVars
    /\ UNCHANGED marketVars
    /\ UNCHANGED streamVars

Retweet(so) ==
    /\ facade' = Seen("retweet", so, TweetOp(ensureInitialized, so))
    /\ UNCHANGED facadeFrame
    /\ UNCHANGED retryVars
    /\ UNCHANGED marketVars
    /\ UNCHANGED streamVars

GetProfile(so) ==
    /\ facade' = Seen("getProfile", so, getProfileOp(ensureInitialized, so))
    /\ UNCHANGED facadeFrame
    /\ UNCHANGED retryVars
    /\ UNCHANGED marketVars
    /\ UNCHANGED streamVars

(***************************************************************************)
(* The poll callback of startStream.  A tick in flight is                   *)
(*   pc    "fetching" (awaiting the generator) or "handling" (awaiting      *)
(*         handleTweetEvent)                                                *)
(*   seen  the tweet ids the generator of this tick has yielded             *)
(*   sent  those of them handed to handleTweetEvent (observation)           *)
(*   begun lastChecked as it stood when the tick began (observation)        *)
(***************************************************************************)
RemoveAt(q, i) == [k \in 1 .. (Len(q) - 1) |-> IF k < i THEN q[k] ELSE q[k + 1]]

Bump(n) == IF n < DispatchCap THEN n + 1 ELSE n

\* the time the platform gives tweet t (its created_at, which the callback
\* does not read): tweet 1 is as old as the clock's origin, each further one
\* a poll interval younger
createdAt(t) == (t - 1) * PollIntervalMs

\* a tick has failed
Failed == monitor.fetchFailed \/ monitor.handlerFailed

\* the interval timer fires: if (!isMonitoring) return; else searchTweets(...)
PollFire ==
    /\ monitoringInterval = "armed"
    /\ now >= nextFire
    /\ Len(ticks) < MaxInFlight
    /\ nextFire' = now + PollIntervalMs
    /\ IF monitorOn
       THEN /\ ticks' = Append(ticks, [pc |-> "fetching", seen |-> {}, sent |-> {},
                                       begun |-> lastChecked])
            /\ monitor' = [monitor EXCEPT !.refetched = @ \/ Failed]
       ELSE /\ monitor' = [monitor EXCEPT !.returnedEarly = TRUE]
            /\ UNCHANGED ticks
    /\ UNCHANGED <<scraper, isInitialized, streamHandler, monitoringInterval, isMonitoring,
                   monitorOn, lastChecked, agentPc, dispatched, initResult, facade>>
    /\ UNCHANGED retryVars
    /\ UNCHANGED marketVars
    /\ UNCHANGED streamVars

\* const tweetTimestamp = Date.now()
tweetTimestamp(t) == now

\* the generator yields tweet t, one the platform already has, to the loop body
Yield(i, t) ==
    /\ i \in 1 .. Len(ticks)
    /\ ticks[i].pc = "fetching"
    /\ t \notin ticks[i].seen
    /\ createdAt(t) <= now
    /\ IF ~monitorOn
       THEN \* break, then lastChecked = Date.now()
            /\ lastChecked' = now
            /\ ticks' = RemoveAt(ticks, i)
            /\ UNCHANGED dispatched
       ELSE IF tweetTimestamp(t) > lastChecked
            THEN /\ dispatched' = [dispatched EXCEPT ![t] = Bump(@)]
                 /\ ticks' = [ticks EXCEPT ![i] = [@ EXCEPT !.pc = "handling",
                                                            !.seen = @ \cup {t},
                                                            !.sent = @ \cup {t}]]
                 /\ UNCHANGED lastChecked
            ELSE /\ ticks' = [ticks EXCEPT ![i].seen = @ \cup {t}]
                 /\ UNCHANGED <<dispatched, lastChecked>>
    /\ UNCHANGED <<scraper, isInitialized, streamHandler, monitoringInterval, isMonitoring,
                   monitorOn, nextFire, agentPc, initResult, facade, monitor>>
    /\ UNCHANGED retryVars
    /\ UNCHANGED marketVars
    /\ UNCHANGED streamVars

\* the generator is exhausted: lastChecked = Date.now()
FetchEnd(i) ==
    /\ i \in 1 .. Len(ticks)
    /\ ticks[i].pc = "fetching"
    /\ lastChecked' = now
    /\ ticks' = RemoveAt(ticks, i)
    /\ UNCHANGED <<scraper, isInitialized, streamHandler, monitoringInterval, isMonitoring,
                   monitorOn, nextFire, agentPc, dispatched, initResult, facade, monitor>>
    /\ UNCHANGED retryVars
    /\ UNCHANGED marketVars
    /\ UNCHANGED streamVars

FetchThrowStops(i) ==
    /\ i \in 1 .. Len(ticks)
    /\ ticks[i].pc = "fetching"
    /\ ticks' = RemoveAt(ticks, i)
    /\ monitor' = [monitor EXCEPT !.fetchFailed = TRUE]
    /\ monitoringInterval' = "null"
    /\ UNCHANGED <<scraper, isInitialized, streamHandler, isMonitoring,
                   monitorOn, lastChecked, nextFire, agentPc, dispatched, initResult, facade>>
    /\ UNCHANGED retryVars
    /\ UNCHANGED marketVars
    /\ UNCHANGED streamVars

\* the generator throws: the catch logs, lastChecked stays
FetchThrow(i) ==
    /\ i \in 1 .. Len(ticks)
    /\ ticks[i].pc = "fetching"
    /\ ticks' = RemoveAt(ticks, i)
    /\ monitor' = [monitor EXCEPT !.fetchFailed = TRUE]
    /\ UNCHANGED <<scraper, isInitialized, streamHandler, monitoringInterval, isMonitoring,
                   monitorOn, lastChecked, nextFire, agentPc, dispatched, initResult, facade>>
    /\ UNCHANGED retryVars
    /\ UNCHANGED marketVars
    /\ UNCHANGED streamVars

\* handleTweetEvent resolved: the loop asks the generator for the next item
HandlerReturn(i) ==
    /\ i \in 1 .. Len(ticks)
    /\ ticks[i].pc = "handling"
    /\ ticks' = [ticks EXCEPT ![i].pc = "fetching"]
    /\ UNCHANGED <<scraper, isInitialized, streamHandler, monitoringInterval, isMonitoring,
                   monitorOn, lastChecked, nextFire, agentPc, dispatched, initResult, facade,
                   monitor>>
    /\ UNCHANGED retryVars
    /\ UNCHANGED marketVars
    /\ UNCHANGED streamVars

\* handleTweetEvent rejected: the catch logs, lastChecked stays
HandlerThrow(i) ==
    /\ i \in 1 .. Len(ticks)
    /\ ticks[i].pc = "handling"
    /\ ticks' = RemoveAt(ticks, i)
    /\ monitor' = [monitor EXCEPT !.handlerFailed = TRUE]
    /\ UNCHANGED <<scraper, isInitialized, streamHandler, monitoringInterval, isMonitoring,
                   monitorOn, lastChecked, nextFire, agentPc, dispatched, initResult, facade>>
    /\ UNCHANGED retryVars
    /\ UNCHANGED marketVars
    /\ UNCHANGED streamVars

\* time passes
PollTick ==
    /\ now + PollStepMs <= MaxPollTime
    /\ now' = now + PollStepMs
    /\ UNCHANGED callVars
    /\ UNCHANGED marketVars
    /\ UNCHANGED agentVars
    /\ UNCHANGED streamVars

NextAgent ==
    \/ AgentInitialize
    \/ LoginOk
    \/ LoginFail
    \/ \E so \in ScraperOutcomes : SendTweet(so)
    \/ \E so \in ScraperOutcomes : PostTweet(so)
    \/ \E so \in ScraperOutcomes : ReplyToTweet(so)
    \/ \E so \in ScraperOutcomes : LikeTweet(so)
    \/ \E so \in ScraperOutcomes : Retweet(so)
    \/ \E so \in ScraperOutcomes : GetProfile(so)
    \/ PollFire
    \/ \E i \in 1 .. MaxInFlight, t \in Tweets : Yield(i, t)
    \/ \E i \in 1 .. MaxInFlight : FetchEnd(i)
    \/ \E i \in 1 .. MaxInFlight : FetchThrow(i)
    \/ \E i \in 1 .. MaxInFlight : HandlerReturn(i)
    \/ \E i \in 1 .. MaxInFlight : HandlerThrow(i)
    \/ PollTick

(***************************************************************************)
(* TwitterService's push stream: startStream, setupStreamRules,             *)
(* handleStreamData, handleStreamError and its restart timer, stop.         *)
(***************************************************************************)
\* what setupStreamRules or searchStream can throw
StreamErrors ==
    {[cls |-> "ApiResponseError", code |-> 403, reset |-> 0, rateLimitError |-> FALSE,
      msg |-> "forbidden"],
     [cls |-> "ApiResponseError", code |-> 429, reset |-> 0, rateLimitError |-> TRUE,
      msg |-> "rate limit"],
     [cls |-> "ApiRequestError", code |-> 0, reset |-> 0, rateLimitError |-> FALSE,
      msg |-> "network"]}

NoData ==
    [author |-> "none", resp |-> "none", replied |-> FALSE, caught |-> "none",
     escaped |-> FALSE, afterStop |-> FALSE]

\* what handleStreamError and its timers did so far:
\*   errs            handleStreamError calls
\*   flagAfterError  isStreaming as the latest handleStreamError left it
\*   timerStarts     timer callbacks that called startStream
\*   skipped         timer callbacks that found isStreaming true and did nothing
\*   failedRestarts  startStream calls of a timer callback that failed
\*   setup           the latest startStream call that ended in its catch: the
\*                   error caught, whether the call threw, and isStreaming as
\*                   the catch found it and as the call left it
NoSetup == [cls |-> "none", code |-> 0, threw |-> FALSE, found |-> FALSE, left |-> FALSE]

NoRecovery ==
    [errs |-> 0, flagAfterError |-> FALSE, timerStarts |-> 0, skipped |-> 0,
     failedRestarts |-> 0, setup |-> NoSetup]

StreamInit ==
    /\ isStreaming = FALSE
    /\ userId = "null"
    /\ starts = <<>>
    /\ openStreams = 0
    /\ restartTimers = <<>>
    /\ stopped = FALSE
    /\ lastStart = "none"
    /\ lastData = NoData
    /\ handlers = <<>>
    /\ recovery = NoRecovery

\* startStream() up to its first await: the isStreaming guard, then
\* setupStreamRules is entered
BeginStart(by) ==
    IF isStreaming
    THEN /\ lastStart' = "already running"
         /\ UNCHANGED starts
    ELSE /\ starts' = Append(starts, [pc |-> "rules", by |-> by])
         /\ UNCHANGED lastStart

\* a caller invokes startStream
StartStream ==
    /\ Len(starts) < MaxStarts
    /\ BeginStart("caller")
    /\ UNCHANGED <<isStreaming, userId, openStreams, restartTimers, stopped, lastData, handlers,
                   recovery>>
    /\ UNCHANGED retryVars
    /\ UNCHANGED marketVars
    /\ UNCHANGED agentVars

\* setupStreamRules resolved: searchStream is requested
RulesOk(i) ==
    /\ i \in 1 .. Len(starts)
    /\ starts[i].pc = "rules"
    /\ starts' = [starts EXCEPT ![i].pc = "subscribe"]
    /\ UNCHANGED <<isStreaming, userId, openStreams, restartTimers, stopped, lastStart,
                   lastData, handlers, recovery>>
    /\ UNCHANGED retryVars
    /\ UNCHANGED marketVars
    /\ UNCHANGED agentVars

StartFailedRethrows(e) == "threw"

\* the catch block of startStream: a 403 is swallowed, anything else rethrown
StartFailed(e) ==
    IF e.cls = "ApiResponseError" /\ e.code = 403 THEN "returned, streaming disabled"
    ELSE "threw"

SetupFailReschedules(i, e) ==
    /\ i \in 1 .. Len(starts)
    /\ Len(restartTimers) < MaxTimers
    /\ starts' = RemoveAt(starts, i)
    /\ lastStart' = StartFailed(e)
    /\ restartTimers' = Append(restartTimers,
                               [due |-> now + config.retryDelay, setAt |-> now])
    /\ UNCHANGED <<isStreaming, userId, openStreams, stopped, lastData, handlers>>
    /\ recovery' = [recovery EXCEPT !.failedRestarts =
                                        IF starts[i].by = "timer" THEN @ + 1 ELSE @,
                                    !.setup =
                                        [cls |-> e.cls, code |-> e.code,
                                         threw |-> (StartFailed(e) = "threw"),
                                         found |-> isStreaming, left |-> isStreaming']]
    /\ UNCHANGED retryVars
    /\ UNCHANGED marketVars
    /\ UNCHANGED agentVars

\* setupStreamRules or searchStream rejected with e; the caller of a timer's
\* startStream is .catch(e => log)
SetupFail(i, e) ==
    /\ i \in 1 .. Len(starts)
    /\ starts' = RemoveAt(starts, i)
    /\ lastStart' = StartFailed(e)
    /\ UNCHANGED <<isStreaming, userId, openStreams, restartTimers, stopped, lastData, handlers>>
    /\ recovery' = [recovery EXCEPT !.failedRestarts =
                                        IF starts[i].by = "timer" THEN @ + 1 ELSE @,
                                    !.setup =
                                        [cls |-> e.cls, code |-> e.code,
                                         threw |-> (StartFailed(e) = "threw"),
                                         found |-> isStreaming, left |-> isStreaming']]
    /\ UNCHANGED retryVars
    /\ UNCHANGED marketVars
    /\ UNCHANGED agentVars

\* searchStream resolved: isStreaming = true, the two handlers are registered
SubscribeOk(i) ==
    /\ i \in 1 .. Len(starts)
    /\ starts[i].pc = "subscribe"
    /\ openStreams < MaxStreams
    /\ starts' = RemoveAt(starts, i)
    /\ isStreaming' = TRUE
    /\ openStreams' = openStreams + 1
    /\ lastStart' = "returned"
    /\ UNCHANGED <<userId, restartTimers, stopped, lastData, handlers, recovery>>
    /\ UNCHANGED retryVars
    /\ UNCHANGED marketVars
    /\ UNCHANGED agentVars

StreamErrorBackoff(closed) ==
    /\ openStreams > 0
    /\ Len(restartTimers) < MaxTimers
    /\ recovery.errs < MaxErrors
    /\ isStreaming' = FALSE
    /\ restartTimers' = Append(restartTimers,
                               [due |-> now + config.retryDelay * (2 ^ recovery.errs),
                                setAt |-> now])
    /\ recovery' = [recovery EXCEPT !.errs = @ + 1, !.flagAfterError = isStreaming']
    /\ openStreams' = IF closed THEN openStreams - 1 ELSE openStreams
    /\ UNCHANGED <<userId, starts, stopped, lastStart, lastData, handlers>>
    /\ UNCHANGED retryVars
    /\ UNCHANGED marketVars
    /\ UNCHANGED agentVars

\* a subscription emits 'error': handleStreamError.  The code does not close
\* the subscription; the platform may have closed it (closed) or not.  A
\* pending timer is kept as its due time and the time it was set.
StreamError(closed) ==
    /\ openStreams > 0
    /\ Len(restartTimers) < MaxTimers
    /\ recovery.errs < MaxErrors
    /\ isStreaming' = FALSE
    /\ restartTimers' = Append(restartTimers,
                               [due |-> now + config.retryDelay, setAt |-> now])
    /\ recovery' = [recovery EXCEPT !.errs = @ + 1, !.flagAfterError = isStreaming']
    /\ openStreams' = IF closed THEN openStreams - 1 ELSE openStreams
    /\ UNCHANGED <<userId, starts, stopped, lastStart, lastData, handlers>>
    /\ UNCHANGED retryVars
    /\ UNCHANGED marketVars
    /\ UNCHANGED agentVars

\* a restart timer fires: if (!this.isStreaming) this.startStream().catch(...)
RestartFire(k) ==
    /\ k \in 1 .. Len(restartTimers)
    /\ now >= restartTimers[k].due
    /\ Len(starts) < MaxStarts
    /\ restartTimers' = RemoveAt(restartTimers, k)
    /\ IF ~isStreaming
       THEN /\ BeginStart("timer")
            /\ recovery' = [recovery EXCEPT !.timerStarts = @ + 1]
       ELSE /\ recovery' = [recovery EXCEPT !.skipped = @ + 1]
            /\ UNCHANGED <<starts, lastStart>>
    /\ UNCHANGED <<isStreaming, userId, openStreams, stopped, lastData, handlers>>
    /\ UNCHANGED retryVars
    /\ UNCHANGED marketVars
    /\ UNCHANGED agentVars

(***************************************************************************)
(* handleStreamData(tweet).  A call in flight is                            *)
(*   pc        "me" (awaiting userClient.v2.me), "generate" (awaiting       *)
(*             generateResponse) or "post" (awaiting this.tweet)            *)
(*   author    tweet.data.author_id                                         *)
(*   afterStop the call began after stop() (observation)                    *)
(* lastData says how the latest call to end ended: the response generated   *)
(* ("none" when none was), whether the reply was posted, the await whose    *)
(* rejection the catch handled ("none" when none), and whether an error     *)
(* left the handler.                                                        *)
(***************************************************************************)
IsOwnNever(author, uid) == FALSE

\* the authors of the tweets the stream delivers: the bot or someone else
Authors == {"bot", "other"}

\* what generateResponse resolves with
Responses == {"", "text"}

\* tweet.data.author_id === this.userId
IsOwn(author, uid) == author = uid

\* the handler returns
Returned(h, resp, replied) ==
    [author |-> h.author, resp |-> resp, replied |-> replied, caught |-> "none",
     escaped |-> FALSE, afterStop |-> h.afterStop]

\* the catch block: the error is logged and the handler returns
Caught(h, stage) ==
    [author |-> h.author, resp |-> "none", replied |-> FALSE, caught |-> stage,
     escaped |-> FALSE, afterStop |-> h.afterStop]

\* a subscription emits 'data': handleStreamData up to its first await
StreamData(author) ==
    /\ openStreams > 0
    /\ Len(handlers) < MaxHandlers
    /\ LET h == [pc |-> "me", author |-> author, afterStop |-> stopped]
       IN IF userId = "null"
          THEN /\ handlers' = Append(handlers, h)
               /\ UNCHANGED lastData
          ELSE IF IsOwn(author, userId)
               THEN /\ lastData' = Returned(h, "none", FALSE)
                    /\ UNCHANGED handlers
               ELSE /\ handlers' = Append(handlers, [h EXCEPT !.pc = "generate"])
                    /\ UNCHANGED lastData
    /\ UNCHANGED <<isStreaming, userId, starts, openStreams, restartTimers, stopped, lastStart,
                   recovery>>
    /\ UNCHANGED retryVars
    /\ UNCHANGED marketVars
    /\ UNCHANGED agentVars

\* userClient.v2.me resolved: this.userId = me.data.id, then the author test
MeOk(i) ==
    /\ i \in 1 .. Len(handlers)
    /\ handlers[i].pc = "me"
    /\ userId' = "bot"
    /\ IF IsOwn(handlers[i].author, userId')
       THEN /\ lastData' = Returned(handlers[i], "none", FALSE)
            /\ handlers' = RemoveAt(handlers, i)
       ELSE /\ handlers' = [handlers EXCEPT ![i].pc = "generate"]
            /\ UNCHANGED lastData
    /\ UNCHANGED <<isStreaming, starts, openStreams, restartTimers, stopped, lastStart,
                   recovery>>
    /\ UNCHANGED retryVars
    /\ UNCHANGED marketVars
    /\ UNCHANGED agentVars

\* generateResponse resolved with resp: if (response) this.tweet(response, ...)
GenerateOk(i, resp) ==
    /\ i \in 1 .. Len(handlers)
    /\ handlers[i].pc = "generate"
    /\ IF resp # ""
       THEN /\ handlers' = [handlers EXCEPT ![i].pc = "post"]
            /\ UNCHANGED lastData
       ELSE /\ lastData' = Returned(handlers[i], resp, FALSE)
            /\ handlers' = RemoveAt(handlers, i)
    /\ UNCHANGED <<isStreaming, userId, starts, openStreams, restartTimers, stopped, lastStart,
                   recovery>>
    /\ UNCHANGED retryVars
    /\ UNCHANGED marketVars
    /\ UNCHANGED agentVars

\* this.tweet(response, { replyToTweetId }) resolved
PostOk(i) ==
    /\ i \in 1 .. Len(handlers)
    /\ handlers[i].pc = "post"
    /\ lastData' = Returned(handlers[i], "text", TRUE)
    /\ handlers' = RemoveAt(handlers, i)
    /\ UNCHANGED <<isStreaming, userId, starts, openStreams, restartTimers, stopped, lastStart,
                   recovery>>
    /\ UNCHANGED retryVars
    /\ UNCHANGED marketVars
    /\ UNCHANGED agentVars

\* the await the handler is at rejected
AwaitFail(i) ==
    /\ i \in 1 .. Len(handlers)
    /\ lastData' = Caught(handlers[i], handlers[i].pc)
    /\ handlers' = RemoveAt(handlers, i)
    /\ UNCHANGED <<isStreaming, userId, starts, openStreams, restartTimers, stopped, lastStart,
                   recovery>>
    /\ UNCHANGED retryVars
    /\ UNCHANGED marketVars
    /\ UNCHANGED agentVars

\* stop(): logs 'Twitter service stopped'
Stop ==
    /\ stopped' = TRUE
    /\ UNCHANGED <<isStreaming, userId, starts, openStreams, restartTimers, lastStart,
                   lastData, handlers, recovery>>
    /\ UNCHANGED retryVars
    /\ UNCHANGED marketVars
    /\ UNCHANGED agentVars

\* time passes
StreamTick ==
    /\ now + StreamStepMs <= MaxStreamTime
    /\ now' = now + StreamStepMs
    /\ UNCHANGED callVars
    /\ UNCHANGED marketVars
    /\ UNCHANGED agentVars
    /\ UNCHANGED streamVars

NextStream ==
    \/ StartStream
    \/ \E i \in 1 .. MaxStarts : RulesOk(i)
    \/ \E i \in 1 .. MaxStarts, e \in StreamErrors : SetupFail(i, e)
    \/ \E i \in 1 .. MaxStarts : SubscribeOk(i)
    \/ \E closed \in BOOLEAN : StreamError(closed)
    \/ \E k \in 1 .. MaxTimers : RestartFire(k)
    \/ \E author \in Authors : StreamData(author)
    \/ \E i \in 1 .. MaxHandlers : MeOk(i)
    \/ \E i \in 1 .. MaxHandlers, resp \in Responses : GenerateOk(i, resp)
    \/ \E i \in 1 .. MaxHandlers : PostOk(i)
    \/ \E i \in 1 .. MaxHandlers : AwaitFail(i)
    \/ Stop
    \/ StreamTick

(***************************************************************************)
(* TwitterService's market updates: startMarketUpdates, stopMarketUpdates   *)
(* and the timers setInterval makes.  market is                             *)
(*   armed     the ids of the timers that are armed                         *)
(*   made      the timers made so far (their ids are 1 .. made)             *)
(*   starting  the startMarketUpdates calls awaiting startMonitoring        *)
(*   stopped   stopMarketUpdates has returned and startMarketUpdates was    *)
(*             not called since (observation)                               *)
(*   firedAfterStop  a timer callback ran while stopped (observation)       *)
(***************************************************************************)
MarketInit ==
    /\ marketUpdateInterval = 0
    /\ market = [armed |-> {}, made |-> 0, starting |-> 0, stopped |-> FALSE,
                 firedAfterStop |-> FALSE]

\* startMarketUpdates(tokenAddress) up to its await of startMonitoring
StartMarketUpdates ==
    /\ market.starting < MaxMarketStarts
    /\ market' = [market EXCEPT !.starting = @ + 1, !.stopped = FALSE]
    /\ UNCHANGED marketUpdateInterval
    /\ UNCHANGED <<retryVars, agentVars, streamVars>>

\* startMonitoring resolved: this.marketUpdateInterval = setInterval(...)
MonitoringOk ==
    /\ market.starting > 0
    /\ market.made < MaxMarketTimers
    /\ marketUpdateInterval' = market.made + 1
    /\ market' = [market EXCEPT !.starting = @ - 1, !.made = @ + 1,
                                !.armed = @ \cup {market.made + 1}]
    /\ UNCHANGED <<retryVars, agentVars, streamVars>>

\* startMonitoring rejected: the catch logs and rethrows
MonitoringFail ==
    /\ market.starting > 0
    /\ market' = [market EXCEPT !.starting = @ - 1]
    /\ UNCHANGED marketUpdateInterval
    /\ UNCHANGED <<retryVars, agentVars, streamVars>>

\* stopMarketUpdates(): clearInterval of the timer the field names, if any
StopMarketUpdates ==
    /\ marketUpdateInterval' = 0
    /\ market' = [market EXCEPT !.armed = IF marketUpdateInterval # 0
                                          THEN @ \ {marketUpdateInterval} ELSE @,
                                !.stopped = TRUE]
    /\ UNCHANGED <<retryVars, agentVars, streamVars>>

\* an armed timer calls its callback, which posts a market update
MarketFire(id) ==
    /\ id \in market.armed
    /\ market' = [market EXCEPT !.firedAfterStop = @ \/ market.stopped]
    /\ UNCHANGED marketUpdateInterval
    /\ UNCHANGED <<retryVars, agentVars, streamVars>>

NextMarket ==
    \/ StartMarketUpdates
    \/ MonitoringOk
    \/ MonitoringFail
    \/ StopMarketUpdates
    \/ \E id \in 1 .. MaxMarketTimers : MarketFire(id)

(***************************************************************************)
(* Specifications.                                                          *)
(***************************************************************************)
InitRetry ==
    /\ config \in Configs
    /\ now = 0
    /\ CallIdle
    /\ AgentInit
    /\ StreamInit
    /\ MarketInit

\* postTweetWithRetry and initialize
NextPost ==
    \/ \E c \in PostContents : CallPostTweetWithRetry(c)
    \/ PTLoop
    \/ PTCatch
    \/ CallInitialize
    \/ IWLoop
    \/ IWCatch
    \/ RespondOk
    \/ \E e \in PlatformErrors : RespondErr(e)
    \/ Wake
    \/ Finish
    \/ Tick

InitPost == InitRetry /\ config \in PostConfigs

SpecPost == InitPost /\ [][NextPost]_vars

\* tweet
NextTweet ==
    \/ \E c \in Contents : CallTweet(c)
    \/ TWLoop
    \/ TWCatch
    \/ RespondOk
    \/ \E e \in PlatformErrors : RespondErr(e)
    \/ Wake
    \/ Finish
    \/ Tick

SpecTweet == InitRetry /\ [][NextTweet]_vars

\* tweet and initialize, the operations that read config.mockMode
NextMock ==
    \/ \E c \in Contents : CallTweet(c)
    \/ TWLoop
    \/ TWCatch
    \/ CallInitialize
    \/ IWLoop
    \/ IWCatch
    \/ RespondOk
    \/ \E e \in PlatformErrors : RespondErr(e)
    \/ Wake
    \/ Finish
    \/ Tick

\* one retry delay and no hashtag allowance are enough for them
InitMock == InitRetry /\ config.retryDelay = BaseDelay /\ config.maxHashtags = 0

SpecMock == InitMock /\ [][NextMock]_vars

\* the retrying operations of TwitterService together
NextRetry ==
    \/ \E c \in Contents : CallPostTweetWithRetry(c)
    \/ PTLoop
    \/ PTCatch
    \/ CallInitialize
    \/ IWLoop
    \/ IWCatch
    \/ \E c \in Contents : CallTweet(c)
    \/ TWLoop
    \/ TWCatch
    \/ RespondOk
    \/ \E e \in PlatformErrors : RespondErr(e)
    \/ Wake
    \/ Finish
    \/ Tick

SpecRetry == InitRetry /\ [][NextRetry]_vars

\* validateTweetContent
NextValidate ==
    \/ \E c \in ValidatorContents : ValidateTweetContent(c)
    \/ Finish

SpecValidate == InitRetry /\ [][NextValidate]_vars

\* AgentTwitterClientService: initialize, the facade, the poll monitor
InitAgent ==
    /\ config = DefaultConfig
    /\ now = 0
    /\ CallIdle
    /\ AgentInit
    /\ StreamInit
    /\ MarketInit

SpecAgent == InitAgent /\ [][NextAgent]_vars

\* TwitterService's push stream
SpecStream == InitAgent /\ [][NextStream]_vars

\* the push stream's start, data handler and stop
NextData ==
    \/ StartStream
    \/ \E i \in 1 .. MaxStarts : RulesOk(i)
    \/ \E i \in 1 .. MaxStarts, e \in StreamErrors : SetupFail(i, e)
    \/ \E i \in 1 .. MaxStarts : SubscribeOk(i)
    \/ \E author \in Authors : StreamData(author)
    \/ \E i \in 1 .. MaxHandlers : MeOk(i)
    \/ \E i \in 1 .. MaxHandlers, resp \in Responses : GenerateOk(i, resp)
    \/ \E i \in 1 .. MaxHandlers : PostOk(i)
    \/ \E i \in 1 .. MaxHandlers : AwaitFail(i)
    \/ Stop

SpecData == InitAgent /\ [][NextData]_vars

\* the push stream's start, error and restart alone
NextRecovery ==
    \/ StartStream
    \/ \E i \in 1 .. MaxStarts : RulesOk(i)
    \/ \E i \in 1 .. MaxStarts, e \in StreamErrors : SetupFail(i, e)
    \/ \E i \in 1 .. MaxStarts : SubscribeOk(i)
    \/ \E closed \in BOOLEAN : StreamError(closed)
    \/ \E k \in 1 .. MaxTimers : RestartFire(k)
    \/ StreamTick

SpecRecovery == InitAgent /\ [][NextRecovery]_vars

\* TwitterService's market updates
SpecMarket == InitAgent /\ [][NextMarket]_vars

Init == InitRetry

Next == NextRetry \/ NextAgent \/ NextStream \/ NextMarket

Spec == Init /\ [][Next]_vars

(***************************************************************************)
(* Properties of the retrying operations.                                   *)
(***************************************************************************)
Ended == pc \in {"returned", "thrown"}

\* C1: postTweetWithRetry never invokes postTweet more than maxRetries times;
\* a call none of whose tries succeeded ends only by throwing, after exactly
\* maxRetries invocations, the terminal error that carries the attempt count
\* and the last failure.
C1_ExhaustsExactlyMaxRetries ==
    op = "postTweetWithRetry" =>
        /\ hist.calls <= config.maxRetries
        /\ (Ended /\ ~hist.succeeded) =>
              /\ pc = "thrown"
              /\ hist.calls = config.maxRetries
              /\ outcome.msg = "failed after attempts"
              /\ outcome.attempts = config.maxRetries
              /\ outcome.cause = hist.lastFail

\* a call with maxRetries = 3 that failed three times, once through the
\* rate-limit wait and once through the backoff, and threw
C1_Witness ==
    /\ op = "postTweetWithRetry" /\ pc = "thrown"
    /\ config.maxRetries = 3 /\ hist.calls = 3
    /\ hist.resetWaits = 1 /\ hist.sleeps = 2

\* C2: in postTweetWithRetry and initializeWithRetry, after a try failed with a
\* 429 whose reset instant T was later than the clock, the next try starts at
\* T or later.
C2_RetryNotBeforeReset ==
    (op \in {"postTweetWithRetry", "initialize"} /\ pc = "awaiting") =>
        hist.startedAt >= hist.notBefore

\* a second try of postTweetWithRetry in flight after such a failure
C2_Witness ==
    /\ op = "postTweetWithRetry" /\ pc = "awaiting"
    /\ hist.calls = 2 /\ hist.notBefore > 0 /\ hist.resetWaits = 1

\* C3: in tweet(), after a try failed with a 429 whose reset instant T was
\* later than the clock, the next try starts at T or later.
C3_TweetRetryNotBeforeReset ==
    (op = "tweet" /\ pc = "awaiting") => hist.startedAt >= hist.notBefore

ValidationFailed ==
    \/ error.msg \in ValidationMsgs
    \/ lastError.msg \in ValidationMsgs
    \/ outcome.msg \in ValidationMsgs

\* C4: a content-validation failure is evaluated once: the call that met it
\* takes no sleep and makes no second try.
C4_ValidationNotRetried ==
    ValidationFailed => (hist.sleeps = 0 /\ hist.calls <= 1)

\* C8: no text longer than 280 is handed to userClient.v2.tweet.
C8_NoLongPayload == hist.payloadLen <= MaxTweetLen

\* C9: a rate-limit or transient platform failure is not thrown to the caller
\* of a retrying post operation while fewer than maxRetries tries were made.
C9_PlatformFailuresRetried ==
    (op \in {"postTweetWithRetry", "tweet"} /\ pc = "thrown" /\ error \in PlatformErrors) =>
        hist.calls >= config.maxRetries

\* C10 as stated: a failure that took the rate-limit wait consumes no attempt
\* (attempt counts only the other failed tries), and a call every try of which
\* took that wait does not end by exhausting its attempts.
C10_ResetWaitFree ==
    op = "postTweetWithRetry" =>
        /\ pc \in {"sleeping", "loop", "thrown"} => attempt = hist.calls - hist.resetWaits
        /\ (hist.calls > 0 /\ hist.resetWaits = hist.calls) => pc # "thrown"

\* C10 amended: a failure that took the rate-limit wait consumes an attempt like
\* any other (attempt counts every failed try), so a call every try of which
\* took that wait ends after exactly maxRetries tries by throwing.
C10_ResetWaitConsumesAttempt ==
    op = "postTweetWithRetry" =>
        /\ pc \in {"sleeping", "loop", "thrown"} => attempt = hist.calls
        /\ hist.resetWaits <= attempt
        /\ attempt <= config.maxRetries
        /\ (Ended /\ hist.calls > 0 /\ hist.resetWaits = hist.calls) =>
              (pc = "thrown" /\ hist.calls = config.maxRetries)

\* a call that took the rate-limit wait after each of two tries and threw
C10_Witness ==
    /\ op = "postTweetWithRetry" /\ pc = "thrown"
    /\ hist.resetWaits = 2 /\ hist.calls = 2

\* C16: in postTweetWithRetry with maxRetries >= 2 a single failed try does
\* not end the call, and a try that succeeds ends it at once with a normal
\* return, so a call whose first try failed and whose second succeeded
\* returns after exactly 2 invocations of postTweet.
C16_FailOnceThenSucceed ==
    op = "postTweetWithRetry" =>
        /\ (config.maxRetries >= 2 /\ hist.calls = 1) => pc # "thrown"
        /\ hist.succeeded =>
              /\ pc = "returned"
              /\ outcome = Success
              /\ hist.calls = attempt + 1
        /\ (hist.succeeded /\ attempt = 1) => hist.calls = 2

\* a call whose first try failed with a transient error and took the backoff
\* and whose second try succeeded
C16_Witness ==
    /\ op = "postTweetWithRetry" /\ pc = "returned"
    /\ attempt = 1 /\ hist.calls = 2 /\ hist.lastKind = "backoff"
    /\ lastError \in TransientErrors

\* the emojis of a content, whatever their block
EmojiCount(c) == c.emojis + c.otherEmojis

\* C17: validateTweetContent throws the too-many-emojis error when the
\* content holds more emojis than contentRules.maxEmojis, and does not throw
\* it when the content holds exactly maxEmojis.
C17_EmojiLimit ==
    (op = "validateTweetContent" /\ Ended) =>
        /\ EmojiCount(content) > config.maxEmojis => outcome.msg = "too many emojis"
        /\ EmojiCount(content) = config.maxEmojis => outcome.msg # "too many emojis"

\* C18: in postTweetWithRetry a sleep of the backoff branch lasts
\* retryDelay * 2^attempt, attempt being the tries failed so far in the call,
\* and twice as long as the sleep before it when that was a backoff too.
C18_BackoffDoubles ==
    (op = "postTweetWithRetry" /\ pc = "sleeping" /\ hist.lastKind = "backoff") =>
        /\ attempt = hist.calls
        /\ attempt < config.maxRetries
        /\ hist.lastSleep = config.retryDelay * (2 ^ attempt)
        /\ hist.prevBackoff # 0 => hist.lastSleep = 2 * hist.prevBackoff

\* the second backoff sleep of a call, right after the first
C18_Witness ==
    /\ op = "postTweetWithRetry" /\ pc = "sleeping"
    /\ hist.lastKind = "backoff" /\ hist.prevBackoff # 0
    /\ attempt = 2 /\ hist.resetWaits = 0

\* C21: postTweetWithRetry takes no sleep, backoff or rate-limit wait, once
\* the failed tries have reached maxRetries: every sleep is followed by
\* another try.
C21_NoSleepAfterLastAttempt ==
    (op = "postTweetWithRetry" /\ pc = "sleeping") => attempt < config.maxRetries

\* C24: in mock mode tweet and initialize send no request to the platform
\* and take no sleep: tweet returns the mock result for any content, valid or
\* not, and initialize returns without calling userClient.v2.me (userId stays
\* unset).
C24_MockMakesNoPlatformCall ==
    (config.mockMode /\ op \in {"tweet", "initialize"}) =>
        /\ pc = "returned"
        /\ hist.platform = 0 /\ hist.calls = 0 /\ hist.sleeps = 0
        /\ op = "tweet" => outcome = MockResult
        /\ op = "initialize" => (outcome = Success /\ userId = "null")

\* tweet in mock mode returned the mock result for a content that is too
\* long and holds more emojis than the rules allow
C24_Witness ==
    /\ config.mockMode /\ op = "tweet" /\ pc = "returned" /\ outcome = MockResult
    /\ content.emojis > config.maxEmojis /\ Length(content) > MaxTweetLen

(***************************************************************************)
(* Properties of AgentTwitterClientService.                                 *)
(***************************************************************************)
\* C5: no tweet is dispatched to handleTweetEvent more than once, however
\* often searchTweets returns it (a generator yields a tweet once per tick, so
\* a second dispatch is one of a later tick).
C5_DispatchedAtMostOnce == \A t \in Tweets : dispatched[t] <= 1

\* C7 as stated: no facade operation, getProfile included, throws to its caller.
C7_FacadeNeverThrows == ~facade.threw

TweetOps == {"sendTweet", "postTweet", "replyToTweet", "likeTweet", "retweet"}

\* C7 amended: sendTweet/postTweet, replyToTweet, likeTweet and retweet never
\* throw: they return success exactly when the service is initialized and the
\* scraper call resolves, and otherwise a failure value that carries an error;
\* getProfile returns the profile in that case and throws in every other.
C7_OnlyGetProfileThrows ==
    /\ facade.op \in TweetOps =>
          /\ ~facade.threw
          /\ facade.success = (facade.ready /\ facade.so = "ok")
          /\ ~facade.success => facade.error # "none"
    /\ facade.op = "getProfile" =>
          /\ facade.threw = ~(facade.ready /\ facade.so = "ok")
          /\ facade.success = ~facade.threw
          /\ facade.threw => facade.error # "none"

\* replyToTweet called after a failed initialize returned its failure value
C7_Witness ==
    /\ facade.op = "replyToTweet"
    /\ initResult = "threw" /\ ~isInitialized
    /\ ~facade.threw /\ ~facade.success /\ facade.error = "not initialized"

\* C11: in a poll tick the items handed to handleTweetEvent are exactly the
\* yielded items whose own timestamp is greater than lastChecked as it stood
\* when the tick began.
C11_DispatchedIffNewer ==
    \A i \in 1 .. Len(ticks) :
        ticks[i].sent = {t \in ticks[i].seen : createdAt(t) > ticks[i].begun}

\* C12: a failed poll tick (the generator threw, or handleTweetEvent threw)
\* never stops monitoring: the interval stays armed and due within one
\* interval, the callback's isMonitoring stays true, and no callback returns
\* without fetching.
C12_FailedTickKeepsMonitoring ==
    Failed =>
        /\ monitoringInterval = "armed"
        /\ monitorOn
        /\ isMonitoring
        /\ ~monitor.returnedEarly
        /\ nextFire <= now + PollIntervalMs

\* after a tick failed in the fetch and one failed in the handler, a later
\* callback is fetching
C12_Witness ==
    /\ monitor.fetchFailed /\ monitor.handlerFailed /\ monitor.refetched
    /\ \E i \in 1 .. Len(ticks) : ticks[i].pc = "fetching"

C15_OneTickAtATime == Len(ticks) <= 1

(***************************************************************************)
(* Properties of the push stream.                                           *)
(***************************************************************************)
\* C6: once stop() has been called the monitoring-active flag is false and no
\* handler dispatch begins any more.
C6_StoppedMeansInactive == stopped => (~isStreaming /\ ~lastData.afterStop)

\* C13: handleStreamError leaves isStreaming false; the timer it sets is due
\* retryDelay after it was set, however many errors came before; each error's
\* timer fires once, and then startStream is called if isStreaming is false
\* and nothing is done if it is true.
C13_ErrorSchedulesOneRestart ==
    /\ recovery.errs > 0 => ~recovery.flagAfterError
    /\ \A k \in 1 .. Len(restartTimers) :
           restartTimers[k].due = restartTimers[k].setAt + config.retryDelay
    /\ recovery.errs = Len(restartTimers) + recovery.timerStarts + recovery.skipped

\* after two errors, the timer of the first has called startStream and the
\* timer of the second is pending
C13_Witness ==
    /\ recovery.errs = 2 /\ recovery.timerStarts = 1 /\ Len(restartTimers) = 1
    /\ restartTimers[1].setAt > 0

\* the stream is down for good: an error came, no subscription is being set up
\* and none is running, and no restart timer is pending
StreamDown == recovery.errs > 0 /\ ~isStreaming /\ starts = <<>>

\* C19 as stated: after a stream error, as long as the stream is not running,
\* another restart attempt is on its way.
C19_RestartsKeepComing == StreamDown => restartTimers # <<>>

\* C19 amended: a restart attempt is made only by the timer of a stream error,
\* one per error at most; a restart whose startStream fails sets no timer.
C19_OneRestartPerError ==
    /\ recovery.timerStarts + Len(restartTimers) <= recovery.errs
    /\ recovery.failedRestarts <= recovery.timerStarts
    /\ recovery.failedRestarts <= recovery.errs
    /\ Len(restartTimers) <= recovery.errs - recovery.failedRestarts

\* one error, its restart failed, and nothing is left that would try again
C19_Witness ==
    /\ StreamDown /\ recovery.errs = 1 /\ recovery.failedRestarts = 1
    /\ restartTimers = <<>> /\ lastStart = "threw"

\* the startStream calls that have requested searchStream and await it
Opening == {i \in 1 .. Len(starts) : starts[i].pc = "subscribe"}

\* C20: the subscriptions that are open and those being opened are one at
\* most.
C20_OneSubscription == openStreams + Cardinality(Opening) <= 1

C22_RepliesOnlyToOthers ==
    /\ ~lastData.escaped
    /\ lastData.replied =>
          /\ lastData.author # "bot"
          /\ lastData.author # userId
          /\ lastData.resp = "text"
          /\ lastData.caught = "none"
    /\ lastData.caught # "none" => ~lastData.replied
    /\ \A i \in 1 .. Len(handlers) :
           handlers[i].pc \in {"generate", "post"} =>
               (userId = "bot" /\ handlers[i].author # userId)

\* a call for the bot's own tweet looked the user up and returned without a
\* reply, while the reply to another author's tweet is being posted
C22_Witness ==
    /\ lastData.author = "bot" /\ ~lastData.replied /\ lastData.caught = "none"
    /\ \E i \in 1 .. Len(handlers) : handlers[i].pc = "post"

(***************************************************************************)
(* Properties of the market updates.                                        *)
(***************************************************************************)
\* C25: once stopMarketUpdates has returned, and until startMarketUpdates is
\* called again, no market-update timer is armed; marketUpdateInterval is null
\* exactly when no timer is armed.
C25_StopClearsEveryTimer ==
    /\ market.stopped => market.armed = {}
    /\ (marketUpdateInterval = 0) <=> (market.armed = {})

=============================================================================
